---- MODULE Spec2Model ----
(***************************************************************************)
(* DeepTextAnalytics: the ingestion -> per-document analysis ->            *)
(* language/corpus aggregation pipeline of pdftotext.py and                *)
(* path_controller.py (Spec), with the renderers of Vizualization.py, and  *)
(* the analysis functions of Math_analysis.py called one at a time on      *)
(* arguments of their own (FnSpec).                                        *)
(*                                                                         *)
(* A text is what extract_text_from_pdf returns: its character count       *)
(* (chars), the token sequence nltk.word_tokenize yields for it (toks) and *)
(* what langdetect.detect answers for it (det, "fail" when detect raises   *)
(* LangDetectException).  detect is taken as a function of the text, so    *)
(* the two calls the code makes on one text agree.                         *)
(***************************************************************************)
EXTENDS Integers, Sequences, FiniteSets, TLC

VARIABLES
    path_kind,              \* what the root path is: "file", "dir" or "invalid"
    entries,                \* the file the path is, or the directory's entries in the OS's order
    pdf_paths,              \* process_pdf_path: the candidates not yet visited
    words_by_file,          \* process_pdf_path: the documents, in insertion order
    all_words,              \* process_pdf_path: the corpus token list
    language_distribution,  \* process_pdf_path: language -> group record
    log,                    \* the records handed to the logging module
    pc,                     \* where main is
    analysed,               \* analyze_document_set: documents already visited
    aggregated,             \* analyze_document_set: all_diversities, all_pos_frequencies, all_word_lengths, all_readability_scores
    group_report,           \* analyze_language_distribution: what each group's charts were drawn from
    environment,            \* what the renderers find: mask images, results/, matplotlib
    artifacts,              \* the files written under results/
    fn_input,               \* the argument an analysis function of Math_analysis.py is called with
    fn_result               \* the function called, its other arguments and its result

vars == <<path_kind, entries, pdf_paths, words_by_file, all_words,
          language_distribution, log, pc, analysed, aggregated, group_report,
          environment, artifacts, fn_input, fn_result>>

\* Largest number of *.pdf entries of the scanned directory.
MaxFiles == 3

\* The n-gram orders the callers of plot_ngrams ask for: numbers = [1,2,3,4,5].
MaxNgram == 5

(***************************************************************************)
(* Words, case, alphabetic test                                            *)
(***************************************************************************)

\* str.lower() on the words of the model.
Lower(w) ==
    CASE w = "The" -> "the"
      [] w = "Mat" -> "mat"
      [] w = "Cat" -> "cat"
      [] OTHER -> w

\* str.isalpha() on the words of the model.
IsAlpha(w) == w \notin {"7", "42", "x1"}

\* nltk.word_tokenize(text)
WordTokenize(text) == text.toks

\* langdetect.detect(text): a language code, or "fail" for LangDetectException.
Detect(text) == text.det

\* The text of a file that has no extractable characters ('').
EmptyText == [chars |-> 0, toks |-> <<>>, det |-> "fail"]

(***************************************************************************)
(* The files a root path can hold.  x is what reading the file does:       *)
(*   "text"    extraction returns the text                                 *)
(*   "readerr" open/PyPDF2 raise FileNotFoundError or PdfReadError         *)
(*   "raise"   open/PyPDF2 raise any other exception                       *)
(* ext is the file's extension, which Path.glob('*.pdf') selects on.       *)
(***************************************************************************)
Files ==
    { [name |-> "a", ext |-> "pdf", x |-> "text",
       text |-> [chars |-> 11, toks |-> <<"The", "cat", "sat">>, det |-> "en"]],
      [name |-> "b", ext |-> "pdf", x |-> "text",
       text |-> [chars |-> 10, toks |-> <<"cat", "on", "Mat">>, det |-> "en"]],
      [name |-> "c", ext |-> "pdf", x |-> "text",
       text |-> [chars |-> 7, toks |-> <<"el", "gato">>, det |-> "es"]],
      [name |-> "d", ext |-> "pdf", x |-> "text",
       text |-> [chars |-> 11, toks |-> <<"the", "neko", "42">>, det |-> "ja"]],
      [name |-> "e", ext |-> "pdf", x |-> "text",
       text |-> [chars |-> 5, toks |-> <<"7", "Mat">>, det |-> "fail"]],
      [name |-> "f", ext |-> "pdf", x |-> "text", text |-> EmptyText],
      [name |-> "k", ext |-> "pdf", x |-> "text",
       text |-> [chars |-> 6, toks |-> <<"the", "42">>, det |-> "en"]],
      [name |-> "g", ext |-> "pdf", x |-> "readerr", text |-> EmptyText],
      [name |-> "h", ext |-> "pdf", x |-> "raise", text |-> EmptyText],
      [name |-> "n", ext |-> "txt", x |-> "readerr", text |-> EmptyText] }

(***************************************************************************)
(* pdftotext.py                                                            *)
(***************************************************************************)

\* One record of the logging module: its level, the file or language its
\* message names, and the function that emitted it.
LogRec(level, about, origin) == [level |-> level, about |-> about, origin |-> origin]

\* extract_text_from_pdf with its handler logging and raising again.
ExtractTextFromPdf_Reraise(f) ==
    CASE f.x = "text" ->
           [raised |-> FALSE, some |-> TRUE, text |-> f.text, logs |-> <<>>]
      [] f.x = "readerr" ->
           [raised |-> TRUE, some |-> FALSE, text |-> EmptyText,
            logs |-> <<LogRec("error", f.name, "extract_text_from_pdf")>>]
      [] OTHER ->
           [raised |-> TRUE, some |-> FALSE, text |-> EmptyText, logs |-> <<>>]

\* extract_text_from_pdf: the text, or None (some = FALSE) with one error
\* record for the two exception types it catches; any other exception is
\* raised to the caller.
ExtractTextFromPdf(f) ==
    CASE f.x = "text" ->
           [raised |-> FALSE, some |-> TRUE, text |-> f.text, logs |-> <<>>]
      [] f.x = "readerr" ->
           [raised |-> FALSE, some |-> FALSE, text |-> EmptyText,
            logs |-> <<LogRec("error", f.name, "extract_text_from_pdf")>>]
      [] OTHER ->
           [raised |-> TRUE, some |-> FALSE, text |-> EmptyText, logs |-> <<>>]

\* language_map of get_language_name_from_code, cut down to the codes the
\* files of the model are detected as; every other code is absent from it.
language_map == [c \in {"en", "es"} |-> IF c = "en" THEN "english" ELSE "spanish"]

\* get_language_name_from_code: language_map.get(code, 'unknown')
GetLanguageNameFromCode(code) ==
    IF code \in DOMAIN language_map THEN language_map[code] ELSE "unknown"

\* nltk.corpus.stopwords: the word lists it holds, by language name;
\* stopwords.words(l) raises OSError for any other name.
Stopwords == [l \in {"english", "spanish"} |->
                 IF l = "english" THEN {"the", "on"} ELSE {"el"}]

\* The list comprehension of get_words_without_stopwords collecting
\* word.lower().
FilterWords_Lowered(words, stop_words) ==
    LET kept == SelectSeq(words, LAMBDA w : Lower(w) \notin stop_words /\ IsAlpha(w))
    IN [i \in 1..Len(kept) |-> Lower(kept[i])]

\* The list comprehension of get_words_without_stopwords.
FilterWords(words, stop_words) ==
    SelectSeq(words, LAMBDA w : Lower(w) \notin stop_words /\ IsAlpha(w))

\* The stopword list get_words_without_stopwords ends up with for a
\* language name: the language's own, or the English one after OSError.
StopwordsFor(language) ==
    IF language \in DOMAIN Stopwords THEN Stopwords[language] ELSE Stopwords["english"]

\* get_words_without_stopwords without its `except OSError` fallback.
GetWordsWithoutStopwords_NoFallback(text, language_code) ==
    LET code == Detect(text) IN
    IF code = "fail" \/ GetLanguageNameFromCode(code) \notin DOMAIN Stopwords
    THEN [raised |-> TRUE, words |-> <<>>, logs |-> <<>>]
    ELSE [raised |-> FALSE,
          words  |-> FilterWords(WordTokenize(text),
                                 Stopwords[GetLanguageNameFromCode(code)]),
          logs   |-> <<>>]

\* get_words_without_stopwords(text, language_code): detects the language
\* again (the parameter is overwritten); LangDetectException is not caught
\* here, OSError from the stopword lookup is.
GetWordsWithoutStopwords(text, language_code) ==
    LET code == Detect(text) IN
    IF code = "fail"
    THEN [raised |-> TRUE, words |-> <<>>, logs |-> <<>>]
    ELSE LET language == GetLanguageNameFromCode(code) IN
         [raised |-> FALSE,
          words  |-> FilterWords(WordTokenize(text), StopwordsFor(language)),
          logs   |-> IF language \in DOMAIN Stopwords THEN <<>>
                     ELSE <<LogRec("warning", language, "get_words_without_stopwords")>>]

\* The value process_pdf_file returns when it returns None.
NoData == [file_name |-> "", language |-> "", words |-> <<>>]

\* process_pdf_file without its `except Exception`: what the extraction or
\* the filtering raises is raised to the caller.
ProcessPdfFile_NoCatch(f) ==
    LET ex == ExtractTextFromPdf(f) IN
    IF ex.raised
    THEN [raised |-> TRUE, some |-> FALSE, data |-> NoData, logs |-> ex.logs]
    ELSE IF ~(ex.some /\ ex.text.chars > 0)
    THEN [raised |-> FALSE, some |-> FALSE, data |-> NoData, logs |-> ex.logs]
    ELSE LET d == Detect(ex.text)
             language_code == IF d = "fail" THEN "unknown" ELSE d
             fw == GetWordsWithoutStopwords(ex.text, language_code)
         IN IF fw.raised
            THEN [raised |-> TRUE, some |-> FALSE, data |-> NoData, logs |-> fw.logs]
            ELSE [raised |-> FALSE, some |-> TRUE,
                  data |-> [file_name |-> f.name,
                            language  |-> GetLanguageNameFromCode(language_code),
                            words     |-> fw.words],
                  logs |-> fw.logs]

\* process_pdf_file: the document of a file (some = TRUE) or None, and the
\* log records written on the way.  `except Exception` (line 108) catches
\* whatever the extraction or the filtering raises, so nothing is raised to
\* the caller (raised = FALSE throughout).
ProcessPdfFile(f) ==
    LET ex == ExtractTextFromPdf(f) IN
    IF ex.raised
    THEN [raised |-> FALSE, some |-> FALSE, data |-> NoData,
          logs |-> ex.logs \o <<LogRec("error", f.name, "process_pdf_file")>>]
    ELSE IF ~(ex.some /\ ex.text.chars > 0)
    THEN [raised |-> FALSE, some |-> FALSE, data |-> NoData, logs |-> ex.logs]
    ELSE LET d == Detect(ex.text)
             language_code == IF d = "fail" THEN "unknown" ELSE d
             warned == IF d = "fail"
                       THEN <<LogRec("warning", f.name, "process_pdf_file")>>
                       ELSE <<>>
             fw == GetWordsWithoutStopwords(ex.text, language_code)
         IN IF fw.raised
            THEN [raised |-> FALSE, some |-> FALSE, data |-> NoData,
                  logs |-> warned \o fw.logs
                           \o <<LogRec("error", f.name, "process_pdf_file")>>]
            ELSE [raised |-> FALSE, some |-> TRUE,
                  data |-> [file_name |-> f.name,
                            language  |-> GetLanguageNameFromCode(language_code),
                            words     |-> fw.words],
                  logs |-> warned \o fw.logs]

\* Path.glob('*.pdf') over the entries of a directory.
Glob(ents) == SelectSeq(ents, LAMBDA f : f.ext = "pdf")

\* The aggregation with the count set when a group is created and never
\* incremented afterwards.
AddToLanguage_CountOnCreate(dist, data) ==
    LET language == data.language
        old == IF language \in DOMAIN dist THEN dist[language]
               ELSE [file_name |-> "All_records_" \o language, language |-> language,
                     documents |-> 1, words |-> <<>>]
        new == [old EXCEPT !.words = @ \o data.words]
    IN [l \in DOMAIN dist \cup {language} |-> IF l = language THEN new ELSE dist[l]]

\* The aggregation with one word list shared by every language group (the
\* default record built once and handed to every setdefault).
AddToLanguage_SharedList(dist, data) ==
    LET language == data.language
        shared == IF DOMAIN dist = {} THEN <<>>
                  ELSE dist[CHOOSE l \in DOMAIN dist : TRUE].words
        old == IF language \in DOMAIN dist THEN dist[language]
               ELSE [file_name |-> "All_records_" \o language, language |-> language,
                     documents |-> 0, words |-> <<>>]
    IN [l \in DOMAIN dist \cup {language} |->
           IF l = language
           THEN [old EXCEPT !.words = shared \o data.words, !.documents = @ + 1]
           ELSE [dist[l] EXCEPT !.words = shared \o data.words]]

\* language_distribution.setdefault(language, {...}) followed by the
\* extend and the increment of lines 136-137.
AddToLanguage(dist, data) ==
    LET language == data.language
        old == IF language \in DOMAIN dist THEN dist[language]
               ELSE [file_name |-> "All_records_" \o language, language |-> language,
                     documents |-> 0, words |-> <<>>]
        new == [old EXCEPT !.words = @ \o data.words, !.documents = @ + 1]
    IN [l \in DOMAIN dist \cup {language} |-> IF l = language THEN new ELSE dist[l]]

\* all_records, the summary record of lines 147-153.
AllRecords(by_file, words) ==
    [file_name |-> "All_records", language |-> "all",
     documents |-> Len(by_file), words |-> words]

\* language_distribution[all_languages] = all_records (line 156)
WithAllRecords(dist, by_file, words) ==
    [l \in DOMAIN dist \cup {"all"} |->
        IF l = "all" THEN AllRecords(by_file, words) ELSE dist[l]]

\* process_pdf_path as a function of the candidate list it enumerates: the
\* pair it returns, its loop unrolled from the left.
RECURSIVE IngestFrom(_, _)
IngestFrom(files, acc) ==
    IF files = <<>> THEN acc
    ELSE LET r == ProcessPdfFile(Head(files)) IN
         IngestFrom(Tail(files),
                    IF r.some
                    THEN [by_file   |-> Append(acc.by_file, r.data),
                          all_words |-> acc.all_words \o r.data.words,
                          dist      |-> AddToLanguage(acc.dist, r.data)]
                    ELSE acc)

ProcessPdfPath(files) ==
    LET acc == IngestFrom(files, [by_file |-> <<>>, all_words |-> <<>>, dist |-> <<>>])
    IN [words_by_file |-> acc.by_file,
        language_distribution |-> WithAllRecords(acc.dist, acc.by_file, acc.all_words)]

(***************************************************************************)
(* Math_analysis.py and Vizualization.py: the pure parts the controller    *)
(* uses                                                                    *)
(***************************************************************************)

\* The set of the elements of a sequence.
Range(s) == { s[i] : i \in 1..Len(s) }

\* collections.Counter over a sequence: element -> number of occurrences.
Counter(s) == [x \in Range(s) |-> Cardinality({ i \in 1..Len(s) : s[i] = x })]

\* Counter.update / Counter addition.
CounterAdd(a, b) ==
    [x \in DOMAIN a \cup DOMAIN b |->
        (IF x \in DOMAIN a THEN a[x] ELSE 0) + (IF x \in DOMAIN b THEN b[x] ELSE 0)]

\* nltk.util.ngrams(words, n), as a list.
Ngrams(words, n) ==
    IF Len(words) < n THEN <<>>
    ELSE [i \in 1..(Len(words) - n + 1) |-> SubSeq(words, i, i + n - 1)]

\* The n-gram frequencies plot_ngrams charts: Counter(ngrams(words, n)).
NgramCounts(words, n) == Counter(Ngrams(words, n))

\* lexical_diversity with word_tokenize(text) in place of
\* word_tokenize(text.lower()).
LexicalDiversity_CaseSensitive(words) ==
    IF Len(words) = 0 THEN [n |-> 0, d |-> 1]
    ELSE [n |-> Cardinality({ words[i] : i \in 1..Len(words) }), d |-> Len(words)]

\* lexical_diversity on ' '.join(words): distinct lower-cased tokens over
\* tokens, kept as the fraction n/d; 0 (0/1) when there is no token.
LexicalDiversity(words) ==
    IF Len(words) = 0 THEN [n |-> 0, d |-> 1]
    ELSE [n |-> Cardinality({ Lower(words[i]) : i \in 1..Len(words) }), d |-> Len(words)]

\* nltk.pos_tag, as a tag per word.
PosTag(w) ==
    CASE Lower(w) \in {"cat", "mat", "gato", "neko"} -> "NN"
      [] Lower(w) \in {"sat"} -> "VBD"
      [] OTHER -> "XX"

\* pos_tag_frequency on ' '.join(words).
PosTagFrequency(words) == Counter([i \in 1..Len(words) |-> PosTag(words[i])])

\* [len(word) for word in words]
WordLengths(words) == [i \in 1..Len(words) |-> Len(words[i])]

(***************************************************************************)
(* Math_analysis.py: the analysis functions.  An argument is either the    *)
(* str (for the functions of a text) or the list (for the functions of a   *)
(* word list) whose tokens are toks, or a value that is neither (None).    *)
(* sents is the number of sentences nltk.sent_tokenize finds in the str.   *)
(* A result is the value returned, the error records logged, and raised =  *)
(* TRUE when the call is left by an exception instead.                     *)
(***************************************************************************)

\* None, passed where a str or a list is expected.
NoText == [kind |-> "none", toks |-> <<>>, sents |-> 0, det |-> "fail"]

\* ' '.join(words), with what langdetect answers for it.
JoinWords(words, det) ==
    [kind |-> "str", toks |-> words, sents |-> IF words = <<>> THEN 0 ELSE 1, det |-> det]

\* not isinstance(text, str) or not text.strip()
IsBlankOrNotStr(x) == x.kind # "str" \/ x.toks = <<>>

\* word_tokenize(text.lower())
LowerAll(words) == [i \in 1..Len(words) |-> Lower(words[i])]

\* The number 0 as a fraction.
Zero == [n |-> 0, d |-> 1]

\* A call that returned v without logging.
Returned(v) == [raised |-> FALSE, value |-> v, logs |-> <<>>]

\* A call whose except clause logged the exception and returned v.
Caught(v, origin) ==
    [raised |-> FALSE, value |-> v, logs |-> <<LogRec("error", "text", origin)>>]

\* A call left by the TypeError of iterating or measuring None.
Raised == [raised |-> TRUE, value |-> <<>>, logs |-> <<>>]

\* lexical_diversity(text)
lexical_diversity(x) ==
    IF IsBlankOrNotStr(x) THEN Caught(Zero, "lexical_diversity")
    ELSE Returned(LexicalDiversity(x.toks))

\* pos_tag_frequency(text)
pos_tag_frequency(x) ==
    IF IsBlankOrNotStr(x) THEN Caught(<<>>, "pos_tag_frequency")
    ELSE Returned(PosTagFrequency(x.toks))

\* word_network_analysis(text): the edges of the undirected graph.
word_network_analysis(x) ==
    IF IsBlankOrNotStr(x) THEN Caught({}, "word_network_analysis")
    ELSE Returned({ {g[1], g[2]} : g \in Range(Ngrams(x.toks, 2)) })

\* The keys of Counter(s) in the order the dict holds them: that of their
\* first occurrence in s.
FirstOccurrences(s) ==
    LET idx == SelectSeq([i \in 1..Len(s) |-> i],
                         LAMBDA i : \A j \in 1..(i - 1) : s[j] # s[i])
    IN [k \in 1..Len(idx) |-> s[idx[k]]]

\* sorted(items, key=count, reverse=True): a stable sort, so of the keys
\* with the largest count the first one comes first.
RECURSIVE SortByCount(_, _)
SortByCount(keys, cnt) ==
    IF keys = <<>> THEN <<>>
    ELSE LET m == CHOOSE i \in 1..Len(keys) :
                      /\ \A j \in 1..Len(keys) : cnt[keys[j]] <= cnt[keys[i]]
                      /\ \A j \in 1..(i - 1) : cnt[keys[j]] < cnt[keys[i]]
         IN <<[item |-> keys[m], count |-> cnt[keys[m]]]>>
            \o SortByCount(SubSeq(keys, 1, m - 1) \o SubSeq(keys, m + 1, Len(keys)), cnt)

\* Counter(s).items(): the pairs in insertion order, unsorted.
MostCommon_Unsorted(s) ==
    LET keys == FirstOccurrences(s)
    IN [k \in 1..Len(keys) |-> [item |-> keys[k], count |-> Counter(s)[keys[k]]]]

\* Counter(s).most_common()
MostCommon(s) == SortByCount(FirstOccurrences(s), Counter(s))

\* ngram_analysis(text, n): order k -> the (n-gram, count) pairs; {} when
\* the text is blank or not a str.
ngram_analysis(x, n) ==
    IF IsBlankOrNotStr(x) THEN Caught(<<>>, "ngram_analysis")
    ELSE Returned([k \in 1..n |-> MostCommon(Ngrams(LowerAll(x.toks), k))])

\* analyze_collocations(words): the bigrams finder.nbest(pmi, 10) returns,
\* which are all the bigrams of a list that has at most 10 distinct ones
\* (their ranking by PMI is left out).  There is no try: the TypeError of
\* iterating None leaves the function.
analyze_collocations(x) ==
    IF x.kind = "none" THEN Raised
    ELSE Returned(Range(Ngrams(x.toks, 2)))

\* d[k] = v on a dict.
DictPut(d, k, v) == [y \in DOMAIN d \cup {k} |-> IF y = k THEN v ELSE d[y]]

\* d.get(k, default)
DictGet(d, k, default) == IF k \in DOMAIN d THEN d[k] ELSE default

\* The loop of word_length_analysis with length_distribution[length] = 1.
RECURSIVE LengthDistribution_NoAccumulate(_)
LengthDistribution_NoAccumulate(words) ==
    IF words = <<>> THEN <<>>
    ELSE DictPut(LengthDistribution_NoAccumulate(SubSeq(words, 1, Len(words) - 1)),
                 Len(words[Len(words)]), 1)

\* The loop of word_length_analysis, lines 167-169.
RECURSIVE LengthDistribution(_)
LengthDistribution(words) ==
    IF words = <<>> THEN <<>>
    ELSE LET front == LengthDistribution(SubSeq(words, 1, Len(words) - 1))
             length == Len(words[Len(words)])
         IN DictPut(front, length, DictGet(front, length, 0) + 1)

\* word_length_analysis(words); no try.
word_length_analysis(x) ==
    IF x.kind = "none" THEN Raised ELSE Returned(LengthDistribution(x.toks))

\* co_occurrence_analysis(words, window_size): the key of a pair is the
\* tuple combinations() yields, first the word that stands first in the
\* window.  No try: len(None) raises.
co_occurrence_analysis(x, window_size) ==
    IF x.kind = "none" THEN Raised
    ELSE LET words == x.toks
             hits == { h \in (1..(Len(words) - window_size + 1))
                               \X (0..(window_size - 1)) \X (0..(window_size - 1)) :
                         h[2] < h[3] }
             pair(h) == <<words[h[1] + h[2]], words[h[1] + h[3]]>>
         IN Returned([p \in { pair(h) : h \in hits } |->
                         Cardinality({ h \in hits : pair(h) = p })])

\* The languages pyphen has a hyphenation dictionary for.
PyphenLanguages == {"en", "es"}

\* len(dic.inserted(word).split('-')) on the words of the model.
Syllables(w) == IF Lower(w) \in {"gato", "neko"} THEN 2 ELSE 1

\* count_syllables(word, language_code): 0 when pyphen raises.
count_syllables(word, language_code) ==
    IF language_code \in PyphenLanguages THEN Syllables(word) ELSE 0

\* sum(count_syllables(word, language_code) for word in words)
RECURSIVE SyllableCount(_, _)
SyllableCount(words, language_code) ==
    IF words = <<>> THEN 0
    ELSE count_syllables(Head(words), language_code)
         + SyllableCount(Tail(words), language_code)

\* The error records count_syllables writes, one per word it fails on.
SyllableLogs(words, language_code) ==
    IF language_code \in PyphenLanguages THEN <<>>
    ELSE [i \in 1..Len(words) |-> LogRec("error", "text", "count_syllables")]

\* readability_index(text): 206.835 - 1.015*(words/sentences)
\* - 84.6*(syllables/words), kept as a fraction over 1000*sentences*words.
readability_index(x) ==
    IF IsBlankOrNotStr(x) \/ x.sents = 0 THEN Returned(Zero)
    ELSE IF Detect(x) = "fail" THEN Caught(Zero, "readability_index")
    ELSE LET w == Len(x.toks)
             s == x.sents
             syl == SyllableCount(x.toks, Detect(x))
         IN [raised |-> FALSE,
             value |-> [n |-> 206835 * s * w - 1015 * w * w - 84600 * syl * s,
                        d |-> 1000 * s * w],
             logs |-> SyllableLogs(x.toks, Detect(x))]

(***************************************************************************)
(* Vizualization.py: the renderers.  env is what they find outside the     *)
(* program: whether Images/ holds a *.png mask (images), whether results/  *)
(* is there ("present"), can be made ("absent") or can neither be made nor *)
(* written ("readonly"), and whether matplotlib can draw (plots).  A call  *)
(* gives the records it logs, the environment it leaves, the files it      *)
(* wrote, and raised = TRUE when it is left by an exception.               *)
(***************************************************************************)

\* Path(...).mkdir(parents=True, exist_ok=True) where it can succeed.
Mkdir(env) == IF env.results = "absent" THEN [env EXCEPT !.results = "present"] ELSE env

\* The renderer saved its figure.
Drawn(env, list_name, file) ==
    [raised |-> FALSE, logs |-> <<>>, env |-> env, files |-> {<<list_name, file>>}]

\* The renderer logged a record and returned without a figure.
Skipped(env, level, list_name, origin) ==
    [raised |-> FALSE, logs |-> <<LogRec(level, list_name, origin)>>,
     env |-> env, files |-> {}]

\* The renderer was left by its exception.
Escaped(env) == [raised |-> TRUE, logs |-> <<>>, env |-> env, files |-> {}]

\* plot_ngrams(words, n, list_name)
plot_ngrams(words, n, list_name, env) ==
    IF env.results = "readonly" THEN Skipped(env, "error", list_name, "plot_ngrams")
    ELSE IF Ngrams(words, n) = <<>>
         THEN Skipped(Mkdir(env), "warning", list_name, "plot_ngrams")
    ELSE IF ~env.plots THEN Skipped(Mkdir(env), "error", list_name, "plot_ngrams")
    ELSE Drawn(Mkdir(env), list_name, <<"top_grams", n>>)

\* create_wordcloud without its except clause.
create_wordcloud_NoCatch(word_freq, list_name, env) ==
    IF env.results = "readonly" THEN Escaped(env)
    ELSE IF ~env.images \/ DOMAIN word_freq = {} \/ ~env.plots THEN Escaped(Mkdir(env))
    ELSE Drawn(Mkdir(env), list_name, <<"wordcloud", 0>>)

\* create_wordcloud(word_freq, list_name): FileNotFoundError without a mask
\* image, ValueError of WordCloud on an empty frequency map; both logged.
create_wordcloud(word_freq, list_name, env) ==
    IF env.results = "readonly" THEN Skipped(env, "error", list_name, "create_wordcloud")
    ELSE IF ~env.images \/ DOMAIN word_freq = {} \/ ~env.plots
         THEN Skipped(Mkdir(env), "error", list_name, "create_wordcloud")
    ELSE Drawn(Mkdir(env), list_name, <<"wordcloud", 0>>)

\* create_wordcloud_multi(word_freq, list_name): the frequency map is
\* validated before the directory is made.
create_wordcloud_multi(word_freq, list_name, env) ==
    IF DOMAIN word_freq = {} \/ env.results = "readonly"
    THEN Skipped(env, "error", list_name, "create_wordcloud_multi")
    ELSE IF ~env.images \/ ~env.plots
         THEN Skipped(Mkdir(env), "error", list_name, "create_wordcloud_multi")
    ELSE Drawn(Mkdir(env), list_name, <<"wordcloud", 0>>)

\* plot_word_network(words, list_name)
plot_word_network(words, list_name, env) ==
    IF env.results = "readonly" THEN Skipped(env, "error", list_name, "plot_word_network")
    ELSE IF ~env.plots THEN Skipped(Mkdir(env), "error", list_name, "plot_word_network")
    ELSE Drawn(Mkdir(env), list_name, <<"word_network", 0>>)

\* plot_lexical_diversity_histogram(diversities, list_name): makes
\* results/<list_name>, saves into results/.
plot_lexical_diversity_histogram(diversities, list_name, env) ==
    IF env.results = "readonly"
    THEN Skipped(env, "error", list_name, "plot_lexical_diversity_histogram")
    ELSE IF ~env.plots
         THEN Skipped(Mkdir(env), "error", list_name, "plot_lexical_diversity_histogram")
    ELSE Drawn(Mkdir(env), "results", <<"lexical_diversity_histogram", 0>>)

\* plot_pos_frequency_distribution, plot_word_length_distribution and
\* plot_readability_index: no mkdir, the figure is saved into results/.
PlotIntoResults(file, list_name, env) ==
    IF env.results # "present" \/ ~env.plots THEN Skipped(env, "error", list_name, file)
    ELSE Drawn(env, "results", <<file, 0>>)

plot_pos_frequency_distribution(pos_frequencies, list_name, env) ==
    PlotIntoResults("pos_frequency_distribution", list_name, env)

plot_word_length_distribution(word_lengths, list_name, env) ==
    PlotIntoResults("word_length_distribution", list_name, env)

plot_readability_index(readability_scores, list_name, env) ==
    PlotIntoResults("readability_index_chart", list_name, env)

\* One renderer after the other: what the second leaves, with the records
\* and files of both.  Nothing of b happens when a was left by an exception.
Then(a, b) ==
    IF a.raised THEN a
    ELSE [raised |-> b.raised, logs |-> a.logs \o b.logs,
          env |-> b.env, files |-> a.files \cup b.files]

\* for n in numbers: plot_ngrams(words, n, list_name), from order n on.
RECURSIVE PlotAllNgrams(_, _, _, _)
PlotAllNgrams(words, n, list_name, env) ==
    IF n > MaxNgram THEN [raised |-> FALSE, logs |-> <<>>, env |-> env, files |-> {}]
    ELSE LET r == plot_ngrams(words, n, list_name, env)
         IN Then(r, PlotAllNgrams(words, n + 1, list_name, r.env))

\* The renderer calls of analyze_single_document, lines 45-53.
DocumentCharts(words, file_name, env) ==
    LET a == PlotAllNgrams(words, 1, file_name, env)
        b == create_wordcloud(Counter(words), file_name, a.env)
        c == plot_word_network(words, file_name, Then(a, b).env)
    IN Then(Then(a, b), c)

\* The renderer calls of analyze_language_distribution, lines 136-144.
GroupCharts(words, language, env) ==
    LET a == PlotAllNgrams(words, 1, language, env)
        b == create_wordcloud_multi(Counter(words), language, a.env)
        c == plot_word_network(words, language, Then(a, b).env)
    IN Then(Then(a, b), c)

\* The renderer calls of analyze_document_set, lines 104-107.
AggregatedCharts(agg, env) ==
    LET a == plot_lexical_diversity_histogram(agg.diversities, "aggregated", env)
        b == plot_pos_frequency_distribution(agg.pos_frequencies, "aggregated", a.env)
        ab == Then(a, b)
        c == plot_word_length_distribution(Counter(agg.word_lengths), "aggregated", ab.env)
        abc == Then(ab, c)
        d == plot_readability_index(agg.readability_scores, "aggregated", abc.env)
    IN Then(abc, d)

\* langdetect.detect on the joined words of a document: taken to answer by
\* the first word.
DetectWords(words) ==
    CASE words = <<>> -> "fail"
      [] Lower(words[1]) \in {"el", "gato"} -> "es"
      [] Lower(words[1]) \in {"neko"} -> "ja"
      [] OTHER -> "en"

\* The try block of analyze_single_document, lines 28-53: the document
\* with the results assigned so far, raised = TRUE when the block is left by
\* an exception (the ValueError of line 33 for an empty word list, or one a
\* renderer lets through).
AnalyzeSingleDocumentTry(data, env) ==
    IF data.words = <<>>
    THEN [raised |-> TRUE, data |-> data, logs |-> <<>>, env |-> env, files |-> {}]
    ELSE LET text == JoinWords(data.words, DetectWords(data.words))
             div == lexical_diversity(text)
             pos == pos_tag_frequency(text)
             net == word_network_analysis(text)
             col == analyze_collocations(text)
             rd == readability_index(text)
             r == DocumentCharts(data.words, data.file_name, env)
         IN [raised |-> r.raised,
             data |-> data @@ [diversity         |-> div.value,
                               pos_freq          |-> pos.value,
                               word_net          |-> net.value,
                               collocations      |-> col.value,
                               readability_index |-> rd.value],
             logs |-> div.logs \o pos.logs \o net.logs \o col.logs \o rd.logs \o r.logs,
             env |-> r.env, files |-> r.files]

\* analyze_single_document without its except clause.
AnalyzeSingleDocument_NoCatch(data, env) == AnalyzeSingleDocumentTry(data, env)

\* analyze_single_document: the document with its analysis results added
\* and its charts drawn; an exception of the try block is logged and noted
\* in the document's 'error' entry (lines 55-59), and the document is
\* returned either way.
AnalyzeSingleDocument(data, env) ==
    LET r == AnalyzeSingleDocumentTry(data, env)
    IN IF r.raised
       THEN [raised |-> FALSE,
             data |-> r.data @@ [error |-> "analyze_single_document"],
             logs |-> r.logs
                      \o <<LogRec("error", data.file_name, "analyze_single_document")>>,
             env |-> r.env, files |-> r.files]
       ELSE r

\* updated_data.get('diversity', 0)
GetDiversity(data) ==
    IF "diversity" \in DOMAIN data THEN data.diversity ELSE [n |-> 0, d |-> 1]

\* updated_data.get('readability_index', 0)
GetReadability(data) ==
    IF "readability_index" \in DOMAIN data THEN data.readability_index ELSE Zero

\* updated_data.get('pos_freq', Counter())
GetPosFreq(data) == IF "pos_freq" \in DOMAIN data THEN data.pos_freq ELSE <<>>

\* The body of the loop of analyze_language_distribution for one group: what
\* its n-gram charts, word cloud and network are drawn from.
LanguageCharts(data) ==
    [ngrams    |-> [n \in 1..MaxNgram |-> NgramCounts(data.words, n)],
     word_freq |-> Counter(data.words),
     network   |-> Range(Ngrams(data.words, 2))]

\* The lists analyze_document_set accumulates over its loop (lines 76-89),
\* as a function of the documents.
RECURSIVE DocumentSetAggregate(_, _)
DocumentSetAggregate(by_file, env) ==
    IF by_file = <<>>
    THEN [diversities |-> <<>>, pos_frequencies |-> <<>>, word_lengths |-> <<>>,
          readability_scores |-> <<>>, env |-> env]
    ELSE LET front == DocumentSetAggregate(SubSeq(by_file, 1, Len(by_file) - 1), env)
             r == AnalyzeSingleDocument(by_file[Len(by_file)], front.env)
         IN [diversities     |-> Append(front.diversities, GetDiversity(r.data)),
             pos_frequencies |-> CounterAdd(front.pos_frequencies, GetPosFreq(r.data)),
             word_lengths    |-> front.word_lengths \o WordLengths(r.data.words),
             readability_scores |-> Append(front.readability_scores, GetReadability(r.data)),
             env |-> r.env]

(***************************************************************************)
(* The state machine: main(path)                                           *)
(***************************************************************************)

\* Sequences of distinct files, at most n long.
DistinctSeqs(n) ==
    { s \in UNION { [1..k -> Files] : k \in 0..n } :
        \A i, j \in DOMAIN s : i # j => s[i] # s[j] }

\* No analysis function has been called on its own.
NotApplied == [fn |-> "none"]

\* The environment in which every renderer succeeds.
AllFine == [images |-> TRUE, results |-> "present", plots |-> TRUE]

\* The environments a run starts in: everything the renderers need, or that
\* with one thing wrong: no mask image, no results/ yet, a results/ that
\* cannot be made or written, a matplotlib that cannot draw.
Environments ==
    { AllFine,
      [images |-> FALSE, results |-> "present",  plots |-> TRUE],
      [images |-> TRUE,  results |-> "absent",   plots |-> TRUE],
      [images |-> TRUE,  results |-> "readonly", plots |-> TRUE],
      [images |-> TRUE,  results |-> "present",  plots |-> FALSE] }

Init ==
    /\ path_kind \in {"file", "dir", "invalid"}
    /\ entries \in CASE path_kind = "file" -> { <<f>> : f \in Files }
                     [] path_kind = "dir" -> DistinctSeqs(MaxFiles)
                     [] OTHER -> { <<>> }
    /\ pdf_paths = <<>>
    /\ words_by_file = <<>>
    /\ all_words = <<>>
    /\ language_distribution = <<>>
    /\ log = <<>>
    /\ pc = "start"
    /\ analysed = 0
    /\ aggregated = [diversities |-> <<>>, pos_frequencies |-> <<>>,
                     word_lengths |-> <<>>, readability_scores |-> <<>>]
    /\ group_report = <<>>
    /\ environment \in Environments
    /\ artifacts = {}
    /\ fn_input = NoText
    /\ fn_result = NotApplied

\* process_pdf_path, lines 123-128: [path] if path.is_file() else
\* path.glob('*.pdf'); a path that does not exist globs to nothing.
PdfPaths(kind, ents) == IF kind = "file" THEN ents ELSE Glob(ents)

Start ==
    /\ pc = "start"
    /\ pdf_paths' = PdfPaths(path_kind, entries)
    /\ pc' = "loop"
    /\ UNCHANGED <<environment, artifacts, fn_input, fn_result, path_kind, entries, words_by_file, all_words,
                   language_distribution, log, analysed, aggregated, group_report>>

\* One iteration of the loop of process_pdf_path, lines 130-144.  An
\* exception that leaves process_pdf_file leaves process_pdf_path too:
\* words() logs it and returns {} (path_controller.py, lines 164-166), the
\* unpacking in main() then raises, and main() logs that and ends (lines
\* 181-182).
ProcessNextFile ==
    /\ pc = "loop"
    /\ pdf_paths # <<>>
    /\ LET r == ProcessPdfFile(Head(pdf_paths)) IN
         IF r.raised
         THEN /\ log' = log \o r.logs \o <<LogRec("error", "path", "words"),
                                            LogRec("error", "path", "main")>>
              /\ pc' = "failed"
              /\ pdf_paths' = <<>>
              /\ words_by_file' = <<>>
              /\ all_words' = <<>>
              /\ language_distribution' = <<>>
         ELSE /\ log' = log \o r.logs
              /\ IF r.some
                 THEN /\ language_distribution' = AddToLanguage(language_distribution, r.data)
                      /\ all_words' = all_words \o r.data.words
                      /\ words_by_file' = Append(words_by_file, r.data)
                 ELSE UNCHANGED <<language_distribution, all_words, words_by_file>>
              /\ pdf_paths' = Tail(pdf_paths)
              /\ pc' = pc
    /\ UNCHANGED <<environment, artifacts, fn_input, fn_result, path_kind, entries, analysed, aggregated, group_report>>

\* process_pdf_path, lines 146-158: the summary record, and the return to
\* words() and main().
Return ==
    /\ pc = "loop"
    /\ pdf_paths = <<>>
    /\ language_distribution' =
          WithAllRecords(language_distribution, words_by_file, all_words)
    /\ pc' = "returned"
    /\ UNCHANGED <<environment, artifacts, fn_input, fn_result, path_kind, entries, pdf_paths, words_by_file, all_words, log,
                   analysed, aggregated, group_report>>

\* One iteration of the loop of analyze_document_set, lines 81-89.  An
\* exception that left analyze_single_document would leave
\* analyze_document_set and be logged by main() (lines 181-182).
AnalyzeDocument ==
    /\ pc = "returned"
    /\ analysed < Len(words_by_file)
    /\ LET r == AnalyzeSingleDocument(words_by_file[analysed + 1], environment) IN
         /\ words_by_file' = [words_by_file EXCEPT ![analysed + 1] = r.data]
         /\ environment' = r.env
         /\ artifacts' = artifacts \cup r.files
         /\ IF r.raised
            THEN /\ log' = log \o r.logs \o <<LogRec("error", "path", "main")>>
                 /\ pc' = "aborted"
                 /\ UNCHANGED <<aggregated, analysed>>
            ELSE /\ log' = log \o r.logs
                 /\ aggregated' =
                       [diversities |-> Append(aggregated.diversities, GetDiversity(r.data)),
                        pos_frequencies |->
                            CounterAdd(aggregated.pos_frequencies, GetPosFreq(r.data)),
                        word_lengths |-> aggregated.word_lengths \o WordLengths(r.data.words),
                        readability_scores |->
                            Append(aggregated.readability_scores, GetReadability(r.data))]
                 /\ analysed' = analysed + 1
                 /\ pc' = pc
    /\ UNCHANGED <<fn_input, fn_result, path_kind, entries, pdf_paths, all_words,
                   language_distribution, group_report>>

\* analyze_document_set after its loop, lines 92-109: the CSV is written
\* into results/ (to_csv raises when the directory is not there or cannot
\* be written, which main() logs), then the aggregated charts are drawn
\* from the lists as they stand.
AggregateDocumentSet ==
    /\ pc = "returned"
    /\ analysed = Len(words_by_file)
    /\ IF environment.results # "present"
       THEN /\ log' = log \o <<LogRec("error", "path", "main")>>
            /\ pc' = "aborted"
            /\ UNCHANGED <<environment, artifacts>>
       ELSE LET r == AggregatedCharts(aggregated, environment) IN
            /\ log' = log \o r.logs
            /\ environment' = r.env
            /\ artifacts' = artifacts \cup {<<"results", <<"document_analysis", 0>>>>}
                                      \cup r.files
            /\ pc' = "languages"
    /\ UNCHANGED <<fn_input, fn_result, path_kind, entries, pdf_paths, words_by_file,
                   all_words, language_distribution, analysed, aggregated, group_report>>

\* The groups analyze_language_distribution logs an error for: those whose
\* word list is empty (the ValueError of line 133).
EmptyGroups(dist) == { l \in DOMAIN dist : dist[l].words = <<>> }

\* The keys of language_distribution in the order the dict holds them: each
\* language where its first document was added, then 'all'.
RECURSIVE FirstSeen(_, _)
FirstSeen(by_file, seen) ==
    IF by_file = <<>> THEN <<>>
    ELSE LET l == Head(by_file).language IN
         IF l \in seen THEN FirstSeen(Tail(by_file), seen)
         ELSE <<l>> \o FirstSeen(Tail(by_file), seen \cup {l})

GroupOrder(by_file) == Append(FirstSeen(by_file, {}), "all")

\* The error records of analyze_language_distribution, in the order written.
GroupErrors(by_file, dist) ==
    LET bad == SelectSeq(GroupOrder(by_file), LAMBDA l : l \in EmptyGroups(dist))
    IN [i \in 1..Len(bad) |-> LogRec("error", bad[i], "analyze_language_distribution")]

\* The body of the loop of analyze_language_distribution for one group,
\* lines 127-148: the ValueError of an empty word list, or an exception a
\* renderer lets through, is logged.
AnalyzeLanguageGroup(language, data, e) ==
    IF data.words = <<>>
    THEN Skipped(e, "error", language, "analyze_language_distribution")
    ELSE LET r == GroupCharts(data.words, language, e)
         IN IF r.raised
            THEN [r EXCEPT !.raised = FALSE,
                           !.logs = r.logs \o <<LogRec("error", language,
                                                        "analyze_language_distribution")>>]
            ELSE r

\* The loop of analyze_language_distribution over the groups in the order
\* of the dict.
RECURSIVE AnalyzeLanguageGroups(_, _, _)
AnalyzeLanguageGroups(order, dist, e) ==
    IF order = <<>> THEN [raised |-> FALSE, logs |-> <<>>, env |-> e, files |-> {}]
    ELSE LET r == AnalyzeLanguageGroup(Head(order), dist[Head(order)], e)
         IN Then(r, AnalyzeLanguageGroups(Tail(order), dist, r.env))

\* analyze_language_distribution, lines 126-148, over every group.
AnalyzeLanguageDistribution ==
    /\ pc = "languages"
    /\ group_report' =
          [l \in DOMAIN language_distribution \ EmptyGroups(language_distribution) |->
              LanguageCharts(language_distribution[l])]
    /\ LET r == AnalyzeLanguageGroups(GroupOrder(words_by_file), language_distribution, environment) IN
         /\ log' = log \o r.logs
         /\ environment' = r.env
         /\ artifacts' = artifacts \cup r.files
    /\ pc' = "exit"
    /\ UNCHANGED <<fn_input, fn_result, path_kind, entries, pdf_paths, words_by_file,
                   all_words, language_distribution, analysed, aggregated>>

Next ==
    \/ Start
    \/ ProcessNextFile
    \/ Return
    \/ AnalyzeDocument
    \/ AggregateDocumentSet
    \/ AnalyzeLanguageDistribution

Spec == Init /\ [][Next]_vars

(***************************************************************************)
(* The analysis functions of Math_analysis.py, each called once on an      *)
(* argument of its own                                                     *)
(***************************************************************************)

\* The words the arguments are made of.
Vocabulary == {"cat", "Cat", "sat", "on"}

\* Longest token sequence of an argument (the example sequence apart).
MaxTokens == 3

\* Largest number of sentences of an argument.
MaxSentences == 2

\* Largest n-gram order asked of ngram_analysis.
MaxOrder == 3

\* Largest window_size asked of co_occurrence_analysis.
MaxWindow == 3

\* The token sequence cat, sat, on, the, cat, mat.
Example == <<"cat", "sat", "on", "the", "cat", "mat">>

TokenSeqs == UNION { [1..k -> Vocabulary] : k \in 0..MaxTokens } \cup {Example}

\* The arguments: None, and the strs / lists of the token sequences.  A
\* blank str has no sentence; any other has at least one and at most one
\* per token.
Arguments ==
    {NoText} \cup
    { [kind |-> "str", toks |-> t, sents |-> s, det |-> d] :
        t \in TokenSeqs, s \in 0..MaxSentences, d \in {"en", "ja", "fail"} }

FnArguments ==
    { x \in Arguments :
        x.kind = "str" =>
           IF x.toks = <<>> THEN x.sents = 0 /\ x.det = "fail"
           ELSE x.sents >= 1 /\ x.sents <= Len(x.toks) }

FnInit ==
    /\ fn_input \in FnArguments
    /\ fn_result = NotApplied
    /\ path_kind = "invalid"
    /\ entries = <<>>
    /\ pdf_paths = <<>>
    /\ words_by_file = <<>>
    /\ all_words = <<>>
    /\ language_distribution = <<>>
    /\ log = <<>>
    /\ pc = "functions"
    /\ environment = AllFine
    /\ artifacts = {}
    /\ analysed = 0
    /\ aggregated = [diversities |-> <<>>, pos_frequencies |-> <<>>,
                     word_lengths |-> <<>>, readability_scores |-> <<>>]
    /\ group_report = <<>>

\* The call fn(fn_input, ...) with result r.
Apply(fn, r) ==
    /\ fn_result.fn = "none"
    /\ fn_result' = [fn |-> fn] @@ r
    /\ UNCHANGED <<environment, artifacts, fn_input, path_kind, entries, pdf_paths, words_by_file, all_words,
                   language_distribution, log, pc, analysed, aggregated, group_report>>

CallLexicalDiversity == Apply("lexical_diversity", lexical_diversity(fn_input))

CallPosTagFrequency == Apply("pos_tag_frequency", pos_tag_frequency(fn_input))

CallWordNetworkAnalysis == Apply("word_network_analysis", word_network_analysis(fn_input))

CallNgramAnalysis ==
    \E n \in 0..MaxOrder :
        Apply("ngram_analysis", [n |-> n] @@ ngram_analysis(fn_input, n))

CallAnalyzeCollocations == Apply("analyze_collocations", analyze_collocations(fn_input))

CallWordLengthAnalysis == Apply("word_length_analysis", word_length_analysis(fn_input))

CallCoOccurrenceAnalysis ==
    \E window_size \in 1..MaxWindow :
        Apply("co_occurrence_analysis",
              [window_size |-> window_size] @@ co_occurrence_analysis(fn_input, window_size))

CallReadabilityIndex == Apply("readability_index", readability_index(fn_input))

FnNext ==
    \/ CallLexicalDiversity
    \/ CallPosTagFrequency
    \/ CallWordNetworkAnalysis
    \/ CallNgramAnalysis
    \/ CallAnalyzeCollocations
    \/ CallWordLengthAnalysis
    \/ CallCoOccurrenceAnalysis
    \/ CallReadabilityIndex

FnSpec == FnInit /\ [][FnNext]_vars

(***************************************************************************)
(* Vocabulary of the properties                                            *)
(***************************************************************************)

\* The candidate list process_pdf_path enumerates for the root path.
Candidates == PdfPaths(path_kind, entries)

\* The candidates the loop of process_pdf_path has been through.
Visited ==
    IF pc = "start" THEN <<>>
    ELSE SubSeq(Candidates, 1, Len(Candidates) - Len(pdf_paths))

\* Reading the file raises (either kind of exception).
ExtractionFails(f) == f.x # "text"

\* The file has text and detect raises LangDetectException on it.
DetectionFails(f) == f.x = "text" /\ f.text.chars > 0 /\ Detect(f.text) = "fail"

\* A step raises on the file: the extraction, the detection, or the
\* filtering (whose only exception here is that of its own detect call).  A
\* missing stopword list is not one: it is recovered inside the filtering.
Failing(f) == ExtractionFails(f) \/ DetectionFails(f)

\* The file has text, a detected language and so a token list.
Valid(f) == f.x = "text" /\ f.text.chars > 0 /\ Detect(f.text) # "fail"

\* The documents of words_by_file that came from file f.
DocsOf(f) == { i \in 1..Len(words_by_file) : words_by_file[i].file_name = f.name }

\* The log records that name file f.
LogAbout(f) == { i \in 1..Len(log) : log[i].about = f.name }

(***************************************************************************)
(* C1: a failure of extraction, detection or filtering on one file never   *)
(* aborts the batch: process_pdf_path is never left by an exception, a     *)
(* failing file has no document in words_by_file, and what the loop has    *)
(* built (and what process_pdf_path returns) is what it builds from the    *)
(* same candidates with the failing files left out.                        *)
(***************************************************************************)
C1_FailureIsolated ==
    /\ pc # "failed"
    /\ \A i \in 1..Len(Visited) : Failing(Visited[i]) => DocsOf(Visited[i]) = {}
    /\ pc = "loop" =>
          LET others == SelectSeq(Visited, LAMBDA f : ~Failing(f))
              acc == IngestFrom(others, [by_file |-> <<>>, all_words |-> <<>>, dist |-> <<>>])
          IN /\ words_by_file = acc.by_file
             /\ all_words = acc.all_words
             /\ language_distribution = acc.dist
    /\ (pc = "returned" /\ analysed = 0) =>
          LET r == ProcessPdfPath(SelectSeq(Candidates, LAMBDA f : ~Failing(f)))
          IN /\ words_by_file = r.words_by_file
             /\ language_distribution = r.language_distribution

\* process_pdf_path has returned from a list in which a failing file comes
\* before a file that was ingested, and which holds both a file whose
\* extraction fails and a file whose detection fails.
C1_Witness ==
    /\ pc = "returned"
    /\ \E i, j \in 1..Len(Candidates) :
          /\ i < j
          /\ Failing(Candidates[i])
          /\ DocsOf(Candidates[j]) # {}
    /\ \E i \in 1..Len(Candidates) : DetectionFails(Candidates[i])
    /\ \E i \in 1..Len(Candidates) : ExtractionFails(Candidates[i])

(***************************************************************************)
(* C2: a directory with N valid files and one malformed file (its          *)
(* extraction fails), at any position: process_pdf_path returns exactly N  *)
(* documents, the log holds exactly one record for the malformed file, and *)
(* the corpus group 'all' has documents = N.                               *)
(***************************************************************************)
OneMalformedAmongValid ==
    /\ path_kind = "dir"
    /\ Cardinality({ i \in 1..Len(Candidates) : ExtractionFails(Candidates[i]) }) = 1
    /\ \A i \in 1..Len(Candidates) : ExtractionFails(Candidates[i]) \/ Valid(Candidates[i])

C2_OneMalformedFile ==
    (pc = "returned" /\ OneMalformedAmongValid) =>
        LET N == Len(Candidates) - 1 IN
        /\ Len(words_by_file) = N
        /\ language_distribution["all"].documents = N
        /\ \A i \in 1..Len(Candidates) :
              ExtractionFails(Candidates[i]) =>
                 Cardinality(LogAbout(Candidates[i])) = 1

\* Returned from a directory of two valid files around one malformed file.
C2_Witness ==
    /\ pc = "returned"
    /\ OneMalformedAmongValid
    /\ Len(Candidates) = 3
    /\ ExtractionFails(Candidates[2])
    /\ Len(words_by_file) = 2

(***************************************************************************)
(* C3: a file whose text was extracted and whose language detection fails  *)
(* is still ingested: it has a document tagged 'unknown', and the          *)
(* 'unknown' language group holds its tokens and counts it.                *)
(***************************************************************************)
C3_DetectionFailureIngested ==
    pc = "returned" =>
       \A i \in 1..Len(Candidates) :
          DetectionFails(Candidates[i]) =>
             /\ \E k \in DocsOf(Candidates[i]) : words_by_file[k].language = "unknown"
             /\ "unknown" \in DOMAIN language_distribution
             /\ language_distribution["unknown"].documents >= 1

(***************************************************************************)
(* C4: when no stopword list exists for the detected language (a code that *)
(* maps to 'unknown' included), the file is ingested and its tokens are    *)
(* those the English stopword list leaves.                                 *)
(***************************************************************************)
NoStopwordList(f) ==
    Valid(f) /\ GetLanguageNameFromCode(Detect(f.text)) \notin DOMAIN Stopwords

C4_EnglishFallback ==
    \A i \in 1..Len(Visited) :
       NoStopwordList(Visited[i]) =>
          /\ DocsOf(Visited[i]) # {}
          /\ \A k \in DocsOf(Visited[i]) :
                words_by_file[k].words =
                   SelectSeq(WordTokenize(Visited[i].text),
                             LAMBDA w : Lower(w) \notin Stopwords["english"] /\ IsAlpha(w))

\* A file without a stopword list was ingested, and the English list took a
\* word out of it.
C4_Witness ==
    \E i \in 1..Len(Visited) :
       /\ NoStopwordList(Visited[i])
       /\ \E k \in DocsOf(Visited[i]) :
             Len(words_by_file[k].words) < Len(SelectSeq(WordTokenize(Visited[i].text), IsAlpha))

(***************************************************************************)
(* C5: after every iteration of the ingestion loop each document is        *)
(* counted in exactly one language group (its own), the 'documents'        *)
(* counters of the language groups sum to the number of entries of         *)
(* words_by_file, and after the return the corpus group's 'documents'      *)
(* equals that number.                                                     *)
(***************************************************************************)
LanguageGroups == DOMAIN language_distribution \ {"all"}

RECURSIVE SumDocuments(_)
SumDocuments(langs) ==
    IF langs = {} THEN 0
    ELSE LET l == CHOOSE x \in langs : TRUE
         IN language_distribution[l].documents + SumDocuments(langs \ {l})

C5_DocumentCounts ==
    /\ \A i \in 1..Len(words_by_file) : words_by_file[i].language \in LanguageGroups
    /\ \A l \in LanguageGroups :
          language_distribution[l].documents =
             Cardinality({ i \in 1..Len(words_by_file) : words_by_file[i].language = l })
    /\ SumDocuments(LanguageGroups) = Len(words_by_file)
    /\ pc \in {"returned", "languages", "exit"} =>
          language_distribution["all"].documents = Len(words_by_file)

\* Mid-loop, with two documents in one language group and one in another.
C5_Witness ==
    /\ pc = "loop"
    /\ Len(words_by_file) = 3
    /\ \E l \in LanguageGroups : language_distribution[l].documents = 2
    /\ Cardinality(LanguageGroups) = 2

(***************************************************************************)
(* C6: once process_pdf_path has added every document, each language       *)
(* group's 'words' is the concatenation, in ingestion order, of the token  *)
(* lists of the documents of that language and of no other document, the   *)
(* groups are those of the documents' languages, and the corpus group's    *)
(* 'words' is the concatenation of all the documents' token lists.         *)
(***************************************************************************)
RECURSIVE Pooled(_, _)
Pooled(by_file, l) ==
    IF by_file = <<>> THEN <<>>
    ELSE (IF l = "all" \/ Head(by_file).language = l THEN Head(by_file).words ELSE <<>>)
         \o Pooled(Tail(by_file), l)

C6_PooledTokens ==
    pc \in {"returned", "languages", "exit"} =>
       /\ DOMAIN language_distribution =
             { words_by_file[i].language : i \in 1..Len(words_by_file) } \cup {"all"}
       /\ \A l \in DOMAIN language_distribution :
             language_distribution[l].words = Pooled(words_by_file, l)

\* Returned with two language groups that hold tokens, one of them pooled
\* from two documents.
C6_Witness ==
    /\ pc = "returned"
    /\ \E l1, l2 \in LanguageGroups :
          /\ l1 # l2
          /\ language_distribution[l1].documents = 2
          /\ Len(language_distribution[l1].words) = 4
          /\ language_distribution[l2].words # <<>>

(***************************************************************************)
(* C7: aggregation is order-independent: for every permutation of the      *)
(* candidates, the run over the permuted list ends with the same           *)
(* count-based fields in every language group and in the corpus: document  *)
(* count, word frequencies, n-gram counts of orders 1..5 over the pooled   *)
(* tokens, summed POS-tag frequencies and word-length histogram.           *)
(***************************************************************************)
Reordered(seq) ==
    { [i \in 1..Len(seq) |-> seq[p[i]]] : p \in Permutations(1..Len(seq)) }

C7_OrderIndependent ==
    pc = "exit" =>
       \A files \in Reordered(Candidates) :
          LET r == ProcessPdfPath(files)
              agg == DocumentSetAggregate(r.words_by_file, environment)
          IN /\ DOMAIN r.language_distribution = DOMAIN language_distribution
             /\ \A l \in DOMAIN language_distribution :
                   /\ r.language_distribution[l].documents
                         = language_distribution[l].documents
                   /\ l \in DOMAIN group_report =>
                         /\ Counter(r.language_distribution[l].words)
                               = group_report[l].word_freq
                         /\ \A n \in 1..MaxNgram :
                               NgramCounts(r.language_distribution[l].words, n)
                                  = group_report[l].ngrams[n]
             /\ agg.pos_frequencies = aggregated.pos_frequencies
             /\ Counter(agg.word_lengths) = Counter(aggregated.word_lengths)

(***************************************************************************)
(* C8: the diversity reported for a language group or for the corpus is    *)
(* recomputed from the group's pooled tokens: a group pooled from two      *)
(* documents of one language that each have diversity 1 and share a word   *)
(* is reported with the diversity of its pooled token list, which is       *)
(* below 1.                                                                *)
(***************************************************************************)
\* Group l holds two documents of one language, each of diversity 1, that
\* have a word in common.
TwoDiverseDocsShareWord(l) ==
    \E i, j \in 1..Len(words_by_file) :
       /\ i # j
       /\ words_by_file[i].language = words_by_file[j].language
       /\ l \in {"all", words_by_file[i].language}
       /\ LexicalDiversity(words_by_file[i].words).n = Len(words_by_file[i].words)
       /\ LexicalDiversity(words_by_file[j].words).n = Len(words_by_file[j].words)
       /\ \E a \in 1..Len(words_by_file[i].words), b \in 1..Len(words_by_file[j].words) :
             Lower(words_by_file[i].words[a]) = Lower(words_by_file[j].words[b])

\* The diversity values main() reports for group l.
ReportedGroupDiversity(l) ==
    IF l \in DOMAIN group_report /\ "diversity" \in DOMAIN group_report[l]
    THEN {group_report[l].diversity}
    ELSE {}

C8_GroupDiversityRecomputed ==
    pc = "exit" =>
       \A l \in DOMAIN language_distribution :
          TwoDiverseDocsShareWord(l) =>
             \E v \in ReportedGroupDiversity(l) :
                /\ v = LexicalDiversity(language_distribution[l].words)
                /\ v.n < v.d

(***************************************************************************)
(* C9: an invalid root path is reported to the caller as an error before   *)
(* any file is processed and never becomes a (possibly empty) successful   *)
(* result, and it is the only condition that aborts the batch.             *)
(***************************************************************************)
C9_InvalidRootRejected ==
    /\ path_kind = "invalid" => pc \notin {"returned", "languages", "exit"}
    /\ pc = "failed" => path_kind = "invalid"

(***************************************************************************)
(* C10: every candidate that process_pdf_path went through without         *)
(* ingesting it has at least one log record that names it, whatever the    *)
(* reason, a file with empty extracted text included.                      *)
(***************************************************************************)
C10_SkipsAreLogged ==
    \A i \in 1..Len(Visited) :
       DocsOf(Visited[i]) = {} => LogAbout(Visited[i]) # {}

(***************************************************************************)
(* Vocabulary of the properties of the analysis of the documents           *)
(***************************************************************************)

\* main is past process_pdf_path.
Ingested == pc \in {"returned", "languages", "exit", "aborted"}

\* analyze_document_set is past its loop.
LoopDone == pc \in {"languages", "exit", "aborted"}

\* The documents as process_pdf_path returned them.
IngestedDocuments == ProcessPdfPath(Candidates).words_by_file

\* The file was written.
Rendered(list_name, file) == <<list_name, file>> \in artifacts

\* The log records the function origin wrote about list_name.
LoggedBy(list_name, origin) ==
    { i \in 1..Len(log) : log[i].about = list_name /\ log[i].origin = origin }

\* Each chart of a document or of a group (cloud names the word cloud
\* renderer) was either saved or its renderer logged why not: the n-gram
\* charts of the MaxNgram orders, the word cloud and the network.
ChartsAccounted(list_name, cloud) ==
    /\ Cardinality(LoggedBy(list_name, "plot_ngrams"))
         + Cardinality({ n \in 1..MaxNgram : Rendered(list_name, <<"top_grams", n>>) })
       = MaxNgram
    /\ Rendered(list_name, <<"wordcloud", 0>>) # (LoggedBy(list_name, cloud) # {})
    /\ Rendered(list_name, <<"word_network", 0>>)
          # (LoggedBy(list_name, "plot_word_network") # {})

\* The same for the four aggregated charts.
AggregatedChartsAccounted ==
    \A file \in {"pos_frequency_distribution", "word_length_distribution",
                 "readability_index_chart", "lexical_diversity_histogram"} :
        Rendered("results", <<file, 0>>)
           # (LoggedBy("aggregated", IF file = "lexical_diversity_histogram"
                                     THEN "plot_lexical_diversity_histogram"
                                     ELSE file) # {})

(***************************************************************************)
(* C11: a failure inside a renderer is logged and does not leave the       *)
(* renderer: every chart of an analysed document, of the aggregate and of  *)
(* a language group is either saved or has a record of its renderer, no    *)
(* document or group is marked failed for it, the loop over the documents  *)
(* runs to its end, and the documents, the aggregated lists and the        *)
(* language groups are what they are when every renderer succeeds.         *)
(***************************************************************************)
C11_RendererFailureContained ==
    Ingested =>
        LET ingested == ProcessPdfPath(Candidates)
            docs == ingested.words_by_file
            agg == DocumentSetAggregate(SubSeq(docs, 1, analysed), AllFine)
        IN /\ language_distribution = ingested.language_distribution
           /\ Len(words_by_file) = Len(docs)
           /\ \A k \in 1..Len(words_by_file) :
                IF k <= analysed
                THEN /\ words_by_file[k] = AnalyzeSingleDocument(docs[k], AllFine).data
                     /\ words_by_file[k].words # <<>> =>
                          /\ "error" \notin DOMAIN words_by_file[k]
                          /\ ChartsAccounted(words_by_file[k].file_name, "create_wordcloud")
                ELSE words_by_file[k] = docs[k]
           /\ aggregated = [diversities |-> agg.diversities,
                            pos_frequencies |-> agg.pos_frequencies,
                            word_lengths |-> agg.word_lengths,
                            readability_scores |-> agg.readability_scores]
           /\ LoopDone => analysed = Len(words_by_file)
           /\ pc \in {"languages", "exit"} => AggregatedChartsAccounted
           /\ pc = "exit" =>
                \A l \in DOMAIN language_distribution :
                    language_distribution[l].words # <<>> =>
                       /\ LoggedBy(l, "analyze_language_distribution") = {}
                       /\ ChartsAccounted(l, "create_wordcloud_multi")

\* main has ended in an environment without a mask image: the word clouds
\* of a document and of its language group failed and were logged, the
\* network charts that come after them were saved, and the document has
\* its metrics.
C11_Witness ==
    /\ pc = "exit"
    /\ ~environment.images
    /\ \E k \in 1..Len(words_by_file) :
         LET d == words_by_file[k] IN
         /\ "diversity" \in DOMAIN d
         /\ LoggedBy(d.file_name, "create_wordcloud") # {}
         /\ Rendered(d.file_name, <<"word_network", 0>>)
         /\ LoggedBy(d.language, "create_wordcloud_multi") # {}
         /\ Rendered(d.language, <<"word_network", 0>>)
         /\ LoggedBy(d.file_name, "plot_ngrams") # {}

(***************************************************************************)
(* Vocabulary of the properties of the analysis functions                  *)
(***************************************************************************)

\* The sum of the values of a dict (or of a list).
RECURSIVE SumOf(_)
SumOf(f) ==
    IF DOMAIN f = {} THEN 0
    ELSE LET k == CHOOSE y \in DOMAIN f : TRUE
         IN f[k] + SumOf([y \in DOMAIN f \ {k} |-> f[y]])

\* The place of the first occurrence of x in s.
FirstIndex(s, x) == CHOOSE i \in 1..Len(s) : s[i] = x /\ \A j \in 1..(i - 1) : s[j] # x

\* The function fn has been called on fn_input.
Called(fn) == fn_result.fn = fn

\* The argument is None, or the empty str / the empty list.
EmptyOrNonTextual(x) == x.kind = "none" \/ x.toks = <<>>

\* The empty or zero value each analysis function documents.
EmptyValue(fn) ==
    CASE fn \in {"lexical_diversity", "readability_index"} -> Zero
      [] fn \in {"word_network_analysis", "analyze_collocations"} -> {}
      [] OTHER -> <<>>

(***************************************************************************)
(* C12: every analysis function is total: called on an empty or a          *)
(* non-textual argument it returns its empty or zero value and is never    *)
(* left by an exception.                                                   *)
(***************************************************************************)
C12_AnalyzersTotal ==
    (fn_result.fn # "none" /\ EmptyOrNonTextual(fn_input)) =>
        /\ ~fn_result.raised
        /\ fn_result.value = EmptyValue(fn_result.fn)

(***************************************************************************)
(* C13: lexical_diversity returns, for a text with tokens, the number of   *)
(* tokens that differ from every earlier token by more than case, over the *)
(* number of tokens, a value in (0, 1]; it returns 0 for a text without    *)
(* tokens (and for a non-str); for cat, sat, on, the, cat, mat it is 5/6.  *)
(***************************************************************************)
C13_LexicalDiversity ==
    Called("lexical_diversity") =>
        LET toks == fn_input.toks
            v == fn_result.value
            firsts == { i \in 1..Len(toks) :
                          \A j \in 1..(i - 1) : Lower(toks[j]) # Lower(toks[i]) }
        IN /\ ~fn_result.raised
           /\ IF EmptyOrNonTextual(fn_input)
              THEN v = Zero
              ELSE /\ v.d = Len(toks)
                   /\ v.n = Cardinality(firsts)
                   /\ 0 < v.n /\ v.n <= v.d
           /\ toks = Example => v = [n |-> 5, d |-> 6]

\* lexical_diversity has been called on a text in which two tokens differ
\* only in case.
C13_Witness ==
    /\ Called("lexical_diversity")
    /\ fn_input.toks = <<"cat", "Cat", "sat">>
    /\ fn_result.value = [n |-> 2, d |-> 3]

(***************************************************************************)
(* C14: the keys of the co-occurrence counts are unordered: no two keys    *)
(* hold the same two tokens in opposite orders.                            *)
(***************************************************************************)
C14_PairsSymmetric ==
    (Called("co_occurrence_analysis") /\ ~fn_result.raised) =>
        \A p \in DOMAIN fn_result.value :
            p[1] # p[2] => <<p[2], p[1]>> \notin DOMAIN fn_result.value

(***************************************************************************)
(* C15: ngram_analysis(text, n) returns for each order k in 1..n the       *)
(* distinct k-token windows of the lower-cased token sequence, each with   *)
(* the number of windows equal to it (so the counts of order k sum to      *)
(* max(0, length - k + 1)), in descending order of count and, among equal  *)
(* counts, in the order of first occurrence; a text without tokens has no  *)
(* window of any order and gets the empty result; for cat, sat, on, the,   *)
(* cat, mat the first bigram entry is (cat, sat) with count 1.             *)
(***************************************************************************)
C15_NgramAnalysis ==
    Called("ngram_analysis") =>
        LET toks == LowerAll(fn_input.toks)
            n == fn_result.n
            v == fn_result.value
            windows(k) == [i \in 1..(Len(toks) - k + 1) |-> SubSeq(toks, i, i + k - 1)]
            Max0(a) == IF a < 0 THEN 0 ELSE a
        IN /\ ~fn_result.raised
           /\ IF EmptyOrNonTextual(fn_input)
              THEN v = <<>>
              ELSE /\ DOMAIN v = 1..n
                   /\ \A k \in 1..n :
                        LET items == v[k]
                            ws == windows(k)
                        IN /\ \A i \in 1..Len(ws) :
                                \E a \in 1..Len(items) : items[a].item = ws[i]
                           /\ \A a \in 1..Len(items) :
                                items[a].count =
                                    Cardinality({ i \in 1..Len(ws) : ws[i] = items[a].item })
                           /\ SumOf([a \in 1..Len(items) |-> items[a].count])
                                 = Max0(Len(toks) - k + 1)
                           /\ \A a, b \in 1..Len(items) :
                                a < b =>
                                   /\ items[a].item # items[b].item
                                   /\ items[a].count >= items[b].count
                                   /\ items[a].count = items[b].count =>
                                         FirstIndex(ws, items[a].item)
                                            < FirstIndex(ws, items[b].item)
           /\ (fn_input.toks = Example /\ n >= 2) =>
                 v[2][1] = [item |-> <<"cat", "sat">>, count |-> 1]

\* ngram_analysis has been called up to an order above 1 on a text whose
\* most frequent token, counted across case, is not the one it begins with.
C15_Witness ==
    /\ Called("ngram_analysis")
    /\ fn_result.n >= 2
    /\ fn_input.toks = <<"sat", "Cat", "cat">>
    /\ fn_result.value[1] = << [item |-> <<"cat">>, count |-> 2],
                               [item |-> <<"sat">>, count |-> 1] >>
    /\ fn_result.value[2] = << [item |-> <<"sat", "cat">>, count |-> 1],
                               [item |-> <<"cat", "cat">>, count |-> 1] >>

(***************************************************************************)
(* C16: readability_index returns 0 and is not left by an exception for a  *)
(* text with no sentence or no word (the empty and the blank str and a     *)
(* non-str included), and it returns 0 too when the language detection or  *)
(* the syllable counting fails.                                            *)
(***************************************************************************)
C16_ReadabilityZero ==
    Called("readability_index") =>
        /\ ~fn_result.raised
        /\ ( \/ EmptyOrNonTextual(fn_input)
             \/ fn_input.sents = 0
             \/ Detect(fn_input) = "fail"
             \/ Detect(fn_input) \notin PyphenLanguages ) => fn_result.value.n = 0

(***************************************************************************)
(* C17: the values of the histogram word_length_analysis returns for a     *)
(* token list sum to the length of the list, and its entry for a length L  *)
(* is the number of tokens of exactly L characters, the tokens taken as    *)
(* they are; for cat, sat, on, the, cat, mat it is {3: 5, 2: 1}.           *)
(***************************************************************************)
C17_WordLengths ==
    (Called("word_length_analysis") /\ fn_input.kind = "str") =>
        LET toks == fn_input.toks
            v == fn_result.value
        IN /\ ~fn_result.raised
           /\ SumOf(v) = Len(toks)
           /\ DOMAIN v = { Len(toks[i]) : i \in 1..Len(toks) }
           /\ \A L \in DOMAIN v :
                v[L] = Cardinality({ i \in 1..Len(toks) : Len(toks[i]) = L })
           /\ toks = Example => v = (3 :> 5 @@ 2 :> 1)

\* word_length_analysis has been called on a list with tokens of two
\* lengths, one of them shared by several tokens.
C17_Witness ==
    /\ Called("word_length_analysis")
    /\ fn_input.toks = <<"cat", "on", "Cat">>
    /\ fn_result.value = (3 :> 2 @@ 2 :> 1)

\* The file a document was read from.
SourceFile(d) == CHOOSE f \in Files : f.name = d.file_name

\* The stopword list the filtering used for the text of a file.
StoplistUsed(f) == StopwordsFor(GetLanguageNameFromCode(Detect(f.text)))

\* The tokens stored in the documents.
StoredTokens == UNION { Range(words_by_file[k].words) : k \in 1..Len(words_by_file) }

(***************************************************************************)
(* C18: every token stored in a document is alphabetic, is not, once       *)
(* lower-cased, in the stopword list used for the document, and is a token *)
(* of the file's text in its own case; the pooled lists hold stored tokens *)
(* only; and analyze_single_document leaves the stored words as            *)
(* process_pdf_path returned them.                                         *)
(***************************************************************************)
C18_StoredTokens ==
    /\ \A k \in 1..Len(words_by_file) :
         LET d == words_by_file[k]
             f == SourceFile(d)
         IN \A i \in 1..Len(d.words) :
               /\ IsAlpha(d.words[i])
               /\ Lower(d.words[i]) \notin StoplistUsed(f)
               /\ d.words[i] \in Range(WordTokenize(f.text))
    /\ Range(all_words) \subseteq StoredTokens
    /\ \A l \in DOMAIN language_distribution :
         Range(language_distribution[l].words) \subseteq StoredTokens
    /\ Ingested =>
         LET docs == IngestedDocuments IN
         \A k \in 1..Len(words_by_file) : words_by_file[k].words = docs[k].words

\* A document whose text held a stopword and a capitalised word has been
\* analysed, and holds the capitalised word as it was.
C18_Witness ==
    /\ pc = "exit"
    /\ \E k \in 1..Len(words_by_file) :
         /\ words_by_file[k].words = <<"cat", "Mat">>
         /\ "on" \in Range(WordTokenize(SourceFile(words_by_file[k]).text))
         /\ "diversity" \in DOMAIN words_by_file[k]
    /\ \E k \in 1..Len(words_by_file) :
         /\ "42" \in Range(WordTokenize(SourceFile(words_by_file[k]).text))
         /\ words_by_file[k].words # <<>>

====
